---- MODULE Spec2Model ----
(***************************************************************************)
(* Model of the store service (src/store/main.py): the ingestion handler   *)
(* create_processed_agent_data, the fan-out send_data_to_subscribers over  *)
(* the module-level set `subscriptions`, the websocket_endpoint connection *)
(* handler, and the handlers by id read_, update_ and                      *)
(* delete_processed_agent_data.                                            *)
(*                                                                         *)
(* Specifications.  Spec: concurrent ingestion requests with connections   *)
(* opening and closing.  SpecChurn: one ingestion request and the whole    *)
(* life of the connections, inbound frames included; FairSpec adds the     *)
(* fairness of the event loop.  SpecCrud: the handlers by id, concurrent,  *)
(* with the ingestion that fills the store.  SpecRegistry: the operations  *)
(* of the registry alone.                                                  *)
(*                                                                         *)
(* Scheduling.  The handlers are coroutines of one asyncio event loop: a   *)
(* coroutine runs without interruption up to its next `await`.  The        *)
(* database calls of create_processed_agent_data are synchronous and its   *)
(* transaction is invisible to other connections until the commit, so the  *)
(* handler is one step from the arrival of the request to its first        *)
(* `await websocket.send_json(data)`, and one step per later send.         *)
(*                                                                         *)
(* The set `subscriptions` is modelled as CPython implements it: a hash    *)
(* table of slots, iterated in slot order by an iterator that remembers    *)
(* the size of the set at its creation and the next slot to look at.  The  *)
(* slot of a new member is its hash (the object's address), which is       *)
(* arbitrary.  An add that fills the table past its load limit rebuilds    *)
(* it; the limit counts the markers left by removed members, which the     *)
(* model does not count, so any add may be the one that rebuilds.          *)
(***************************************************************************)
EXTENDS Integers, Sequences, FiniteSets, TLC

MaxCalls == 2      \* POST /processed_agent_data/ requests
MaxConns == 2      \* websocket connections opened
TableSlots == 3    \* slots of the hash table of `subscriptions`
MaxOps == 2        \* GET, PUT and DELETE /processed_agent_data/{data_id} requests

Calls == 1..MaxCalls
Conns == 1..MaxConns
Slots == 0..(TableSlots - 1)
Ops == 1..MaxOps
NoConn == 0        \* an unused slot of the table

Range(s) == {s[i] : i \in 1..Len(s)}

---------------------------------------------------------------------------
(* Time strings and datetime.  A time string is a sequence of tokens; a    *)
(* datetime is <<date, time of day>>.                                      *)

Dates == {"2024-01-01", "2024-01-02"}
Tods == {"00:00:00"}
Midnight == "00:00:00"
NoDatetime == <<>>                \* ValueError raised instead of a value

\* datetime.fromisoformat(value): date alone, or date, one separator
\* character and a time of day.
fromisoformat(value) ==
    IF Len(value) = 1 /\ value[1] \in Dates
    THEN <<value[1], Midnight>>
    ELSE IF Len(value) = 3 /\ value[1] \in Dates /\ value[3] \in Tods
         THEN <<value[1], value[3]>>
         ELSE NoDatetime

\* AgentData.check_time: the parsed datetime, or NoDatetime for ValueError.
check_time(value) == fromisoformat(value)

\* str(datetime): date, a blank, time of day.
DatetimeStr(dt) == IF Len(dt) = 2 THEN <<dt[1], " ", dt[2]>> ELSE dt

---------------------------------------------------------------------------
(* Request items (ProcessedAgentData as sent by the client).               *)

RawItem(rs, x, y, z, lat, lon, t) ==
    [road_state |-> rs,
     agent_data |-> [accelerometer |-> [x |-> x, y |-> y, z |-> z],
                     gps |-> [latitude |-> lat, longitude |-> lon],
                     time |-> t]]

ItemA == RawItem("good", 1, 2, 3, 10, 20, <<"2024-01-01", "T", "00:00:00">>)
ItemB == RawItem("bad", 4, 5, 6, 30, 40, <<"2024-01-02">>)
ItemX == RawItem("good", 7, 8, 9, 50, 60, <<"yesterday">>)

\* The request bodies the clients send: empty, one record, two records, and
\* an unparseable time in the last and in the first position.
Batches == { <<>>, <<ItemA>>, <<ItemA, ItemB>>, <<ItemA, ItemX>>, <<ItemX, ItemB>> }

\* Validation of the body as List[ProcessedAgentData]: every item is
\* validated; one failure rejects the request.
ValidFirstOnly(b) ==
    IF b = <<>> THEN TRUE ELSE check_time(b[1].agent_data.time) # NoDatetime
ValidBody(b) == \A i \in 1..Len(b) : check_time(b[i].agent_data.time) # NoDatetime

\* The validated model: time replaced by the parsed datetime.
ParseItem(it) ==
    [it EXCEPT !.agent_data.time = check_time(it.agent_data.time)]
ParseBody(b) == [i \in 1..Len(b) |-> ParseItem(b[i])]

\* processed_agent_data.insert().values(...).returning(...): the flat row.
InsertedRowSwapped(id, item) ==
    [id |-> id,
     road_state |-> item.road_state,
     x |-> item.agent_data.accelerometer.x,
     y |-> item.agent_data.accelerometer.y,
     z |-> item.agent_data.accelerometer.z,
     latitude |-> item.agent_data.gps.longitude,
     longitude |-> item.agent_data.gps.latitude,
     time |-> item.agent_data.time]
InsertedRow(id, item) ==
    [id |-> id,
     road_state |-> item.road_state,
     x |-> item.agent_data.accelerometer.x,
     y |-> item.agent_data.accelerometer.y,
     z |-> item.agent_data.accelerometer.z,
     latitude |-> item.agent_data.gps.latitude,
     longitude |-> item.agent_data.gps.longitude,
     time |-> item.agent_data.time]

\* json.loads(json.dumps(d, default=str)): the datetime becomes its str().
JsonRow(d) == [d EXCEPT !.time = DatetimeStr(d.time)]
JsonRows(rows) == [i \in 1..Len(rows) |-> JsonRow(rows[i])]

---------------------------------------------------------------------------
VARIABLES
    pc,          \* per call: "idle", "publish", "done", "gone"
    request,     \* per call: the request body as sent
    data,        \* per call: the validated body (handler argument `data`)
    inserted,    \* per call: inserted_data, the rows of its transaction
    execs,       \* per call: number of connection.execute calls made
    result,      \* per call: the response
    store,       \* committed rows of table processed_agent_data
    nextId,      \* the id sequence of the table
    table,       \* hash table of `subscriptions`: slot -> connection
    it_used,     \* per call: set size remembered by its iterator
    it_pos,      \* per call: next slot its iterator looks at
    handler,     \* per connection: "none", "connecting", "open", "closed",
                 \* "failed"
    transport,   \* per connection: "none", "up", "down"
    received,    \* per connection: messages that reached the peer
    heard,       \* per connection: receive_text() has returned a text
    regAtStart,  \* per call: `subscriptions` when its publish began
    failedSend,  \* per call: the connection whose send_json raised
    pubOrder,    \* calls in the order their publish began
    ops          \* per GET, PUT or DELETE request: its kind, id, position,
                 \* the row it read and its response

vars == <<pc, request, data, inserted, execs, result, store, nextId, table,
          it_used, it_pos, handler, transport, received, heard,
          regAtStart, failedSend, pubOrder, ops>>

callVars == <<pc, request, data, inserted, execs, result, it_used, it_pos,
              regAtStart, failedSend, pubOrder, ops>>
dbVars == <<store, nextId>>

subscriptions == {table[s] : s \in Slots} \ {NoConn}

\* The event loop is not held by a handler that is handing its response
\* over.
LoopFree == \A c \in Calls : pc[c] # "done"

Pending == [code |-> 0, count |-> 0, error |-> "pending"]
Created(n) == [code |-> 201, count |-> n, error |-> "none"]
Unprocessable == [code |-> 422, count |-> 0, error |-> "validation"]
ServerError(kind) == [code |-> 500, count |-> 0, error |-> kind]

\* Responses of the handlers by id: the row, or HTTPException(404).
NoRow == <<>>
NoResponse == [code |-> 0, row |-> NoRow, detail |-> "pending"]
Found(row) == [code |-> 200, row |-> row, detail |-> "none"]
NotFound == [code |-> 404, row |-> NoRow, detail |-> "Data not found"]
IdleOp == [kind |-> "none", id |-> 0, at |-> "idle", row |-> NoRow,
           response |-> NoResponse]

Init ==
    /\ pc = [c \in Calls |-> "idle"]
    /\ request = [c \in Calls |-> <<>>]
    /\ data = [c \in Calls |-> <<>>]
    /\ inserted = [c \in Calls |-> <<>>]
    /\ execs = [c \in Calls |-> 0]
    /\ result = [c \in Calls |-> Pending]
    /\ store = {}
    /\ nextId = 1
    /\ table = [s \in Slots |-> NoConn]
    /\ it_used = [c \in Calls |-> 0]
    /\ it_pos = [c \in Calls |-> 0]
    /\ handler = [w \in Conns |-> "none"]
    /\ transport = [w \in Conns |-> "none"]
    /\ received = [w \in Conns |-> <<>>]
    /\ heard = [w \in Conns |-> FALSE]
    /\ regAtStart = [c \in Calls |-> {}]
    /\ failedSend = [c \in Calls |-> NoConn]
    /\ pubOrder = <<>>
    /\ ops = [o \in Ops |-> IdleOp]

---------------------------------------------------------------------------
(* The database connection of one call.                                    *)

\* The loop `for item in data` after k turns: the rows inserted and
\* returned, with ids from the sequence starting at id0.
InsertLoop(items, k, id0) ==
    [i \in 1..k |-> InsertedRow(id0 + i - 1, items[i])]

\* connection.commit(): the rows of the transaction become durable.
CommitForgotten(rows) == store
CommitTx(rows) == store \cup Range(rows)

\* Leaving `with engine.connect()` by an exception before the commit: the
\* connection is closed and its transaction rolled back.
RollbackAutocommit(rows) == store \cup Range(rows)
Rollback(rows) == store

\* Leaving `with engine.connect()` after the commit, by the end of the
\* broadcast or by its exception: the connection is closed; the table `st`
\* keeps the committed rows.
ClosedUndoesCommit(st, rows) == st \ Range(rows)
Closed(st, rows) == st

---------------------------------------------------------------------------
(* send_data_to_subscribers: one turn of                                   *)
(*     for websocket in subscriptions: await websocket.send_json(data)     *)
(* taken with an iterator that remembers size `used` and looks at slot     *)
(* `pos` next.  The iterator first compares the size of the set with the   *)
(* size it remembers (RuntimeError: Set changed size during iteration),    *)
(* then moves to the next used slot; the loop ends when there is none.     *)
(* send_json to a peer that is gone raises, or is swallowed by the         *)
(* transport, depending on the server stack.                               *)

Message(c, rows) == [call |-> c, data |-> JsonRows(rows)]

UsedSlotsFrom(pos) == {s \in Slots : s >= pos /\ table[s] # NoConn}
FirstSlot(S) == CHOOSE s \in S : \A t \in S : s <= t

\* The handler returns or raises: the response is ready for the caller.
Respond(c, res) ==
    /\ pc' = [pc EXCEPT ![c] = "done"]
    /\ result' = [result EXCEPT ![c] = res]
    /\ it_used' = [it_used EXCEPT ![c] = 0]
    /\ it_pos' = [it_pos EXCEPT ![c] = 0]

Iterate(c, used, pos, rows) ==
    IF Cardinality(subscriptions) # used
    THEN /\ Respond(c, ServerError("runtime"))
         /\ UNCHANGED <<received, failedSend>>
    ELSE IF UsedSlotsFrom(pos) = {}
    THEN \* the loop ends; return {"status": "ok", "count": len(inserted_data)}
         /\ Respond(c, Created(Len(rows)))
         /\ UNCHANGED <<received, failedSend>>
    ELSE LET s == FirstSlot(UsedSlotsFrom(pos))
             w == table[s]
         IN  IF transport[w] = "up"
             THEN /\ received' = [received EXCEPT ![w] = Append(@, Message(c, rows))]
                  /\ it_used' = [it_used EXCEPT ![c] = used]
                  /\ it_pos' = [it_pos EXCEPT ![c] = s + 1]
                  /\ pc' = [pc EXCEPT ![c] = "publish"]
                  /\ UNCHANGED <<result, failedSend>>
             ELSE \/ /\ Respond(c, ServerError("delivery"))
                     /\ failedSend' = [failedSend EXCEPT ![c] = w]
                     /\ UNCHANGED received
                  \/ /\ it_used' = [it_used EXCEPT ![c] = used]
                     /\ it_pos' = [it_pos EXCEPT ![c] = s + 1]
                     /\ pc' = [pc EXCEPT ![c] = "publish"]
                     /\ UNCHANGED <<result, received, failedSend>>

---------------------------------------------------------------------------
(* create_processed_agent_data                                             *)

\* A request can arrive for call c.
Arrives(c) ==
    /\ LoopFree
    /\ pc[c] = "idle"
    /\ \A d \in Calls : d < c => pc[d] # "idle"

\* The body fails validation: 422, the handler is not called.
Reject(c, b) ==
    /\ Arrives(c)
    /\ ~ValidBody(b)
    /\ request' = [request EXCEPT ![c] = b]
    /\ Respond(c, Unprocessable)
    /\ UNCHANGED <<data, inserted, execs, regAtStart, failedSend, pubOrder,
                   dbVars, table, handler, transport, received, heard, ops>>

\* connection.execute raises in turn k + 1 of the loop (store unreachable,
\* constraint violated).
InsertFail(c, b, k) ==
    /\ Arrives(c)
    /\ ValidBody(b)
    /\ k < Len(b)
    /\ request' = [request EXCEPT ![c] = b]
    /\ data' = [data EXCEPT ![c] = ParseBody(b)]
    /\ LET rows == InsertLoop(ParseBody(b), k, nextId)
       IN  /\ inserted' = [inserted EXCEPT ![c] = rows]
           /\ store' = Rollback(rows)
    /\ execs' = [execs EXCEPT ![c] = k + 1]
    /\ nextId' = nextId + k
    /\ Respond(c, ServerError("persistence"))
    /\ UNCHANGED <<regAtStart, failedSend, pubOrder, table, handler,
                   transport, received, heard, ops>>

\* Every insert succeeds; connection.commit() raises.
CommitFail(c, b) ==
    /\ Arrives(c)
    /\ ValidBody(b)
    /\ request' = [request EXCEPT ![c] = b]
    /\ data' = [data EXCEPT ![c] = ParseBody(b)]
    /\ LET rows == InsertLoop(ParseBody(b), Len(b), nextId)
       IN  /\ inserted' = [inserted EXCEPT ![c] = rows]
           /\ store' = Rollback(rows)
    /\ execs' = [execs EXCEPT ![c] = Len(b)]
    /\ nextId' = nextId + Len(b)
    /\ Respond(c, ServerError("persistence"))
    /\ UNCHANGED <<regAtStart, failedSend, pubOrder, table, handler,
                   transport, received, heard, ops>>

\* Every insert succeeds, connection.commit(), then send_data_to_subscribers
\* up to its first await.
Commit(c, b) ==
    /\ Arrives(c)
    /\ ValidBody(b)
    /\ request' = [request EXCEPT ![c] = b]
    /\ data' = [data EXCEPT ![c] = ParseBody(b)]
    /\ execs' = [execs EXCEPT ![c] = Len(b)]
    /\ nextId' = nextId + Len(b)
    /\ pubOrder' = Append(pubOrder, c)
    /\ regAtStart' = [regAtStart EXCEPT ![c] = subscriptions]
    /\ LET rows == InsertLoop(ParseBody(b), Len(b), nextId)
       IN  /\ inserted' = [inserted EXCEPT ![c] = rows]
           /\ Iterate(c, Cardinality(subscriptions), 0, rows)
           /\ store' = IF pc'[c] = "done"
                        THEN Closed(CommitTx(rows), rows)
                        ELSE CommitTx(rows)
    /\ UNCHANGED <<table, handler, transport, heard, ops>>

\* The awaited send_json returns; the loop takes its next turn.
Resume(c) ==
    /\ LoopFree
    /\ pc[c] = "publish"
    /\ Iterate(c, it_used[c], it_pos[c], inserted[c])
    /\ store' = IF pc'[c] = "done" THEN Closed(store, inserted[c]) ELSE store
    /\ UNCHANGED <<request, data, inserted, execs, regAtStart, pubOrder,
                   nextId, table, handler, transport, heard, ops>>

\* The response is handed to the caller; the handler's frame is gone.
Return(c) ==
    /\ pc[c] = "done"
    /\ pc' = [pc EXCEPT ![c] = "gone"]
    /\ request' = [request EXCEPT ![c] = <<>>]
    /\ data' = [data EXCEPT ![c] = <<>>]
    /\ inserted' = [inserted EXCEPT ![c] = <<>>]
    /\ execs' = [execs EXCEPT ![c] = 0]
    /\ result' = [result EXCEPT ![c] = Pending]
    /\ regAtStart' = [regAtStart EXCEPT ![c] = {}]
    /\ failedSend' = [failedSend EXCEPT ![c] = NoConn]
    /\ UNCHANGED <<it_used, it_pos, pubOrder, dbVars, table, handler,
                   transport, received, heard, ops>>

---------------------------------------------------------------------------
(* websocket_endpoint                                                      *)

\* A client connects; the handler starts and awaits websocket.accept().
Accept(w) ==
    /\ LoopFree
    /\ handler[w] = "none"
    /\ \A v \in Conns : v < w => handler[v] # "none"
    /\ handler' = [handler EXCEPT ![w] = "connecting"]
    /\ transport' = [transport EXCEPT ![w] = "up"]
    /\ UNCHANGED <<callVars, dbVars, table, received, heard>>

\* accept() returns; subscriptions.add(websocket) into the slot of its hash.
Open(w, s) ==
    /\ LoopFree
    /\ handler[w] = "connecting"
    /\ table[s] = NoConn
    /\ table' = [table EXCEPT ![s] = w]
    /\ handler' = [handler EXCEPT ![w] = "open"]
    /\ UNCHANGED <<callVars, dbVars, transport, received, heard>>

\* The tables that hold exactly the members S, each in one slot.
Placements(S) ==
    {t \in [Slots -> S \cup {NoConn}] :
        \A w \in S : Cardinality({s \in Slots : t[s] = w}) = 1}

\* accept() returns; subscriptions.add(websocket) rebuilds the table: every
\* member is placed anew by its hash, the iterators keep their position.
OpenResize(w) ==
    /\ LoopFree
    /\ handler[w] = "connecting"
    /\ \E t \in Placements(subscriptions \cup {w}) :
        /\ \E s \in Slots : table[s] \notin {NoConn, t[s]}
        /\ table' = t
    /\ handler' = [handler EXCEPT ![w] = "open"]
    /\ UNCHANGED <<callVars, dbVars, transport, received, heard>>

\* receive_text() returns a text frame of the peer; the text is dropped and
\* the loop `while True` awaits the next one.
ReceiveTextCloses(w) ==
    /\ LoopFree
    /\ handler[w] = "open"
    /\ transport[w] = "up"
    /\ heard' = [heard EXCEPT ![w] = TRUE]
    /\ table' = [s \in Slots |-> IF table[s] = w THEN NoConn ELSE table[s]]
    /\ handler' = [handler EXCEPT ![w] = "closed"]
    /\ UNCHANGED <<callVars, dbVars, transport, received>>
ReceiveText(w) ==
    /\ LoopFree
    /\ handler[w] = "open"
    /\ transport[w] = "up"
    /\ heard' = [heard EXCEPT ![w] = TRUE]
    /\ UNCHANGED <<callVars, dbVars, table, handler, transport, received>>

\* receive_text() raises something other than WebSocketDisconnect (a binary
\* frame has no text: KeyError).  No `except` clause matches: the handler
\* ends without subscriptions.remove(websocket), and the server closes the
\* connection.
ReceiveRaises(w) ==
    /\ LoopFree
    /\ handler[w] = "open"
    /\ transport[w] = "up"
    /\ handler' = [handler EXCEPT ![w] = "failed"]
    /\ transport' = [transport EXCEPT ![w] = "down"]
    /\ received' = [received EXCEPT ![w] = <<>>]
    /\ heard' = [heard EXCEPT ![w] = FALSE]
    /\ UNCHANGED <<callVars, dbVars, table>>

\* The peer closes the connection (or the network drops it).
PeerClose(w) ==
    /\ LoopFree
    /\ transport[w] = "up"
    /\ transport' = [transport EXCEPT ![w] = "down"]
    /\ UNCHANGED <<callVars, dbVars, table, handler, received, heard>>

\* set.remove(w): the table without w; KeyError when w is not a member.
RemoveForgotten(w) == table
Removed(w) == [s \in Slots |-> IF table[s] = w THEN NoConn ELSE table[s]]
KeyError(w) == w \notin subscriptions

\* The clause `except WebSocketDisconnect: subscriptions.remove(websocket)`;
\* a KeyError leaves the handler as an unhandled exception.
ExceptDisconnect(w) ==
    /\ table' = Removed(w)
    /\ handler' = [handler EXCEPT ![w] = IF KeyError(w) THEN "failed" ELSE "closed"]
    /\ received' = [received EXCEPT ![w] = <<>>]
    /\ heard' = [heard EXCEPT ![w] = FALSE]
    /\ UNCHANGED <<callVars, dbVars, transport>>

\* receive_text() raises WebSocketDisconnect.  The peer is gone, and with it
\* what it had received.
Disconnect(w) ==
    /\ LoopFree
    /\ handler[w] = "open"
    /\ transport[w] = "down"
    /\ ExceptDisconnect(w)

---------------------------------------------------------------------------
(* read_processed_agent_data, update_processed_agent_data and              *)
(* delete_processed_agent_data.  They are plain functions, which the       *)
(* framework runs on threads of a pool, each statement on a database       *)
(* connection of its own: a handler is one step per transaction, and the   *)
(* steps of concurrent requests interleave.                                *)

\* select().where(id == data_id), .first(); 404 when there is no row.
ReadRow(id) ==
    IF \E r \in store : r.id = id
    THEN Found(CHOOSE r \in store : r.id = id)
    ELSE NotFound

\* result.rowcount of update().where(id == data_id).
RowCountOne(id) == 1
RowCount(id) == Cardinality({r \in store : r.id = id})

\* The table after update().where(id == data_id).values(...) and commit().
UpdatedStore(id, item) ==
    {IF r.id = id THEN InsertedRow(id, item) ELSE r : r \in store}

\* The table after delete().where(id == data_id) and commit().
DeletedStore(id) == {r \in store : r.id # id}

\* The ids the clients ask for: those assigned so far and the next one.
AskedIds == 1..nextId

\* The bodies of the PUT requests, validated before the handler is called.
UpdateBodies == {b \in {ItemA, ItemB} : ValidBody(<<b>>)}

\* A request can arrive for operation o.
Starts(o) ==
    /\ ops[o].at = "idle"
    /\ \A p \in Ops : p < o => ops[p].at # "idle"

Finish(o, kind, id, response) ==
    ops' = [ops EXCEPT ![o] = [kind |-> kind, id |-> id, at |-> "done",
                               row |-> response.row, response |-> response]]

\* GET /processed_agent_data/{data_id}
Read(o, id) ==
    /\ Starts(o)
    /\ Finish(o, "read", id, ReadRow(id))
    /\ UNCHANGED <<pc, request, data, inserted, execs, result, it_used,
                   it_pos, regAtStart, failedSend, pubOrder, dbVars, table,
                   handler, transport, received, heard>>

\* PUT: the update statement; 404 when it matched no row, else commit().
UpdateExecute(o, id, item) ==
    /\ Starts(o)
    /\ IF RowCount(id) = 0
       THEN /\ Finish(o, "update", id, NotFound)
            /\ store' = store
       ELSE /\ ops' = [ops EXCEPT ![o] = [kind |-> "update", id |-> id,
                                          at |-> "committed", row |-> NoRow,
                                          response |-> NoResponse]]
            /\ store' = UpdatedStore(id, ParseItem(item))
    /\ UNCHANGED <<pc, request, data, inserted, execs, result, it_used,
                   it_pos, regAtStart, failedSend, pubOrder, nextId, table,
                   handler, transport, received, heard>>

\* PUT: return read_processed_agent_data(data_id).
UpdateRead(o) ==
    /\ ops[o].at = "committed"
    /\ Finish(o, "update", ops[o].id, ReadRow(ops[o].id))
    /\ UNCHANGED <<pc, request, data, inserted, execs, result, it_used,
                   it_pos, regAtStart, failedSend, pubOrder, dbVars, table,
                   handler, transport, received, heard>>

\* DELETE: data_to_delete = read_processed_agent_data(data_id).
DeleteRead(o, id) ==
    /\ Starts(o)
    /\ IF ReadRow(id) = NotFound
       THEN Finish(o, "delete", id, NotFound)
       ELSE ops' = [ops EXCEPT ![o] = [kind |-> "delete", id |-> id,
                                      at |-> "read", row |-> ReadRow(id).row,
                                      response |-> NoResponse]]
    /\ UNCHANGED <<pc, request, data, inserted, execs, result, it_used,
                   it_pos, regAtStart, failedSend, pubOrder, dbVars, table,
                   handler, transport, received, heard>>

\* DELETE: the delete statement, commit(), return data_to_delete.
DeleteExecute(o) ==
    /\ ops[o].at = "read"
    /\ store' = DeletedStore(ops[o].id)
    /\ Finish(o, "delete", ops[o].id, Found(ops[o].row))
    /\ UNCHANGED <<pc, request, data, inserted, execs, result, it_used,
                   it_pos, regAtStart, failedSend, pubOrder, nextId, table,
                   handler, transport, received, heard>>

\* The clause `except WebSocketDisconnect` entered for a websocket whose
\* removal has already been done: the disconnect signalled a second time.
DisconnectAgain(w) ==
    /\ LoopFree
    /\ handler[w] = "closed"
    /\ ExceptDisconnect(w)

---------------------------------------------------------------------------
Next ==
    \/ \E c \in Calls, b \in Batches : Reject(c, b)
    \/ \E c \in Calls, b \in Batches : \E k \in 0..Len(b) : InsertFail(c, b, k)
    \/ \E c \in Calls, b \in Batches : CommitFail(c, b)
    \/ \E c \in Calls, b \in Batches : Commit(c, b)
    \/ \E c \in Calls : Resume(c)
    \/ \E c \in Calls : Return(c)
    \/ \E w \in Conns : Accept(w)
    \/ \E w \in Conns, s \in Slots : Open(w, s)
    \/ \E w \in Conns : OpenResize(w)
    \/ \E w \in Conns : PeerClose(w)
    \/ \E w \in Conns : Disconnect(w)

Spec == Init /\ [][Next]_vars

\* One request and the whole life of the connections around it, the frames
\* the peers send included.
ChurnCalls == {c \in Calls : \A d \in Calls : c <= d}
NextChurn ==
    \/ \E c \in ChurnCalls, b \in Batches : Commit(c, b)
    \/ \E c \in ChurnCalls : Resume(c)
    \/ \E c \in ChurnCalls : Return(c)
    \/ \E w \in Conns : Accept(w)
    \/ \E w \in Conns, s \in Slots : Open(w, s)
    \/ \E w \in Conns : OpenResize(w)
    \/ \E w \in Conns : ReceiveText(w)
    \/ \E w \in Conns : ReceiveRaises(w)
    \/ \E w \in Conns : PeerClose(w)
    \/ \E w \in Conns : Disconnect(w)

SpecChurn == Init /\ [][NextChurn]_vars

\* The handlers by id, with the ingestion that fills the store and the
\* subscribers it publishes to.
NextCrud ==
    \/ \E c \in ChurnCalls, b \in Batches : Commit(c, b)
    \/ \E c \in ChurnCalls : Resume(c)
    \/ \E c \in ChurnCalls : Return(c)
    \/ \E w \in Conns : Accept(w)
    \/ \E w \in Conns, s \in Slots : Open(w, s)
    \/ \E o \in Ops, id \in AskedIds : Read(o, id)
    \/ \E o \in Ops, id \in AskedIds, item \in UpdateBodies : UpdateExecute(o, id, item)
    \/ \E o \in Ops : UpdateRead(o)
    \/ \E o \in Ops, id \in AskedIds : DeleteRead(o, id)
    \/ \E o \in Ops : DeleteExecute(o)

SpecCrud == Init /\ [][NextCrud]_vars

\* The registry as an interface: add on connect, remove on a disconnect
\* signal, and the signal delivered again for a removed websocket.  The
\* program itself never takes the last step: each handler removes once.
NextRegistry ==
    \/ \E w \in Conns : Accept(w)
    \/ \E w \in Conns, s \in Slots : Open(w, s)
    \/ \E w \in Conns : OpenResize(w)
    \/ \E w \in Conns : ReceiveText(w)
    \/ \E w \in Conns : PeerClose(w)
    \/ \E w \in Conns : Disconnect(w)
    \/ \E w \in Conns : DisconnectAgain(w)

SpecRegistry == Init /\ [][NextRegistry]_vars

\* The event loop runs every coroutine that is ready: a handler whose
\* awaited send has completed takes its next turn, and a response that is
\* ready is handed over.  Nothing is assumed of the peers.
FairSpec ==
    /\ SpecChurn
    /\ \A c \in ChurnCalls : WF_vars(Resume(c)) /\ WF_vars(Return(c))

---------------------------------------------------------------------------
(* Vocabulary of the properties.                                           *)

\* The call's handler has run and has not yet handed its response over.
Live(c) == pc[c] \in {"publish", "done"}

\* The call's transaction has committed.
Committed(c) == Live(c) /\ c \in Range(pubOrder)

\* Positions of the messages of call c in what connection w received.
MsgsFor(w, c) == {i \in 1..Len(received[w]) : received[w][i].call = c}

\* The body holds a record whose time does not parse.
HasBadTime(b) ==
    \E i \in 1..Len(b) : fromisoformat(b[i].agent_data.time) = NoDatetime

PosIn(seq, x) == CHOOSE i \in 1..Len(seq) : seq[i] = x

---------------------------------------------------------------------------
(* C1: every record a subscriber has been sent carries an assigned id and  *)
(* is a committed row of the store, and its batch's transaction has        *)
(* committed: no send precedes connection.commit().                        *)
C1_SentOnlyCommitted ==
    \A w \in Conns : \A i \in 1..Len(received[w]) :
        LET m == received[w][i]
        IN  /\ m.call \in Range(pubOrder)
            /\ \A j \in 1..Len(m.data) :
                /\ m.data[j].id \in 1..(nextId - 1)
                /\ \E r \in store : JsonRow(r) = m.data[j]

\* A subscriber has received a batch with records in it.
C1_Witness ==
    \E w \in Conns : \E i \in 1..Len(received[w]) : Len(received[w][i].data) > 0

(* C2: for a valid batch, at every moment of the call and at its end,      *)
(* either none of its rows is in the store and nothing was sent for it, or *)
(* all of its rows are in the store and every message sent for it is the   *)
(* persisted form of the whole batch; a persistence error ends in the      *)
(* first case, a success in the second.                                    *)
C2_AllOrNothing ==
    \A c \in Calls :
        (Live(c) /\ ~HasBadTime(request[c])) =>
            LET rows == Range(inserted[c])
                none == /\ rows \cap store = {}
                        /\ \A w \in Conns : MsgsFor(w, c) = {}
                all == /\ rows \subseteq store
                       /\ Len(inserted[c]) = Len(request[c])
                       /\ \A w \in Conns : \A i \in MsgsFor(w, c) :
                              received[w][i].data = JsonRows(inserted[c])
            IN  /\ none \/ all
                /\ result[c].error = "persistence" => none
                /\ result[c].code = 201 => all

\* A call ended with a persistence error after a row had been inserted; and
\* (another state) a call ended in success with its batch delivered.
C2_Witness ==
    \E c \in Calls :
        /\ pc[c] = "done"
        /\ result[c].error = "persistence"
        /\ Len(inserted[c]) >= 1
        /\ Len(request[c]) > Len(inserted[c])

C2_WitnessSuccess ==
    \E c \in Calls :
        /\ pc[c] = "done"
        /\ result[c].code = 201
        /\ Len(inserted[c]) = 2
        /\ \E w \in Conns : MsgsFor(w, c) # {}

(* C3: a batch that holds a record with an unparseable time, at whatever   *)
(* position, is rejected as a whole with a validation error: no execute    *)
(* call is made, no row is inserted or stored, nothing is published.       *)
C3_InvalidRejected ==
    \A c \in Calls :
        (Live(c) /\ HasBadTime(request[c])) =>
            /\ pc[c] = "done"
            /\ result[c] = Unprocessable
            /\ execs[c] = 0
            /\ inserted[c] = <<>>
            /\ c \notin Range(pubOrder)
            /\ \A w \in Conns : MsgsFor(w, c) = {}

\* A batch whose first record is valid and whose last is not was rejected.
C3_Witness ==
    \E c \in Calls :
        /\ pc[c] = "done"
        /\ Len(request[c]) = 2
        /\ fromisoformat(request[c][1].agent_data.time) # NoDatetime
        /\ HasBadTime(request[c])
        /\ result[c].code = 422

\* The store is left as it was by a rejected request.
C3_StoreUnchanged ==
    [][\A c \in Calls, b \in Batches : (HasBadTime(b) /\ Reject(c, b)) => store' = store]_vars

---------------------------------------------------------------------------
\* A subscriber of the registry that is connected: its handler is open and
\* its transport is up.
Connected(w) == w \in subscriptions /\ handler[w] = "open" /\ transport[w] = "up"

(* C4: when the send to one subscriber fails during a publish, the publish *)
(* does not fail and every other subscriber that was registered when the   *)
(* publish began and is still connected at its end has received the batch. *)
C4_SendFailureIsolated ==
    \A c \in Calls :
        (pc[c] = "done" /\ failedSend[c] # NoConn) =>
            /\ result[c].code # 500
            /\ \A w \in regAtStart[c] \ {failedSend[c]} :
                   Connected(w) => MsgsFor(w, c) # {}

(* C5: once the batch is committed the call reports success with the count *)
(* of persisted records, whatever happens to the deliveries.               *)
C5_CommittedReportsSuccess ==
    \A c \in Calls :
        (pc[c] = "done" /\ Committed(c)) =>
            result[c] = Created(Len(request[c]))

(* C6: connects and disconnects between two sends of a publish never make *)
(* the publish raise, no subscriber of the registry is delivered the batch *)
(* twice, and at the end of the publish the registry holds exactly the     *)
(* connections whose handler is open.                                      *)
C6_PublishSurvivesChurn ==
    \A c \in Calls :
        (pc[c] = "done" /\ Committed(c)) =>
            /\ result[c].error # "runtime"
            /\ \A w \in subscriptions : Cardinality(MsgsFor(w, c)) <= 1
            /\ subscriptions = {w \in Conns : handler[w] = "open"}

(* C7: at the end of a committed call, every subscriber that was in the    *)
(* registry when its publish began and is still connected has received     *)
(* exactly one message for the batch, the persisted form of all of it.     *)
C7_ExactlyOneMessage ==
    \A c \in Calls :
        (pc[c] = "done" /\ Committed(c)) =>
            \A w \in regAtStart[c] :
                Connected(w) =>
                    /\ Cardinality(MsgsFor(w, c)) = 1
                    /\ \A i \in MsgsFor(w, c) :
                           received[w][i].data = JsonRows(inserted[c])

(* C8: at the end of a publish in which the send to a subscriber failed,   *)
(* that subscriber is no longer in the registry.                           *)
C8_FailedSubscriberRemoved ==
    \A c \in Calls :
        (pc[c] = "done" /\ failedSend[c] # NoConn) =>
            failedSend[c] \notin subscriptions

(* C9: a committed call with an empty batch sends no message to any        *)
(* subscriber, stores nothing, and ends in success with count 0.           *)
C9_EmptyBatchSilent ==
    \A c \in Calls :
        (Committed(c) /\ request[c] = <<>>) =>
            /\ \A w \in Conns : MsgsFor(w, c) = {}
            /\ inserted[c] = <<>>
            /\ pc[c] = "done" => result[c] = Created(0)

(* C10: the batches each subscriber has received are in the order in which *)
(* they were published, so no two subscribers hold two batches in opposite *)
(* orders.                                                                 *)
C10_PublishOrder ==
    \A w \in Conns : \A i, j \in 1..Len(received[w]) :
        i < j => PosIn(pubOrder, received[w][i].call)
                     < PosIn(pubOrder, received[w][j].call)

---------------------------------------------------------------------------
(* C11: the registry holds only connections whose handshake completed and  *)
(* whose handler has not ended: every member's handler is open, and a      *)
(* handler that has ended, by a close or by an error, has left the         *)
(* registry.                                                               *)
C11_RegistryOnlyOpenHandlers ==
    \A w \in Conns :
        /\ w \in subscriptions => handler[w] = "open"
        /\ handler[w] \in {"closed", "failed"} => w \notin subscriptions

(* C12: no batch is replayed: a connection that has not yet been added to  *)
(* the registry holds no message, a call whose publish has not begun has   *)
(* sent none, and no connection has received the batch of one call more    *)
(* than once.                                                              *)
C12_NoReplayAtMostOnce ==
    \A w \in Conns :
        /\ handler[w] \in {"none", "connecting"} => received[w] = <<>>
        /\ \A c \in Calls :
            /\ c \notin Range(pubOrder) => MsgsFor(w, c) = {}
            /\ Cardinality(MsgsFor(w, c)) <= 1

(* C13: once the disconnect of a subscriber has been handled, the          *)
(* subscriber is not in the registry, a publish that begins does not have  *)
(* it in the set it iterates, and it receives nothing.                     *)
C13_ClosedReceivesNothing ==
    [][\A w \in Conns :
          handler[w] = "closed" =>
              /\ w \notin subscriptions'
              /\ received'[w] = <<>>
              /\ \A c \in Calls :
                     (pc[c] = "idle" /\ pc'[c] # "idle") => w \notin regAtStart'[c]
      ]_vars

\* A publish has delivered a batch to a subscriber and has ended, and it ran
\* without a connection whose disconnect has been handled.
C13_Witness ==
    \E c \in Calls, w, v \in Conns :
        /\ pc[c] = "done"
        /\ result[c].code = 201
        /\ handler[w] = "closed"
        /\ w \notin regAtStart[c]
        /\ v \in regAtStart[c]
        /\ MsgsFor(v, c) # {}

(* C14: every publish that has begun comes to its end and the call         *)
(* returns, and every subscriber that was registered when the publish      *)
(* began eventually receives the batch unless it stops being connected,    *)
(* whatever the other subscribers do.                                      *)
C14_PublishCompletesForAll ==
    \A c \in Calls :
        /\ (pc[c] = "publish") ~> (pc[c] = "gone")
        /\ \A w \in Conns :
               (Committed(c) /\ w \in regAtStart[c])
                   ~> (MsgsFor(w, c) # {} \/ ~Connected(w))

C16_InboundTextDiscarded ==
    [][\A w \in Conns :
          ReceiveText(w) =>
              /\ table' = table
              /\ store' = store /\ nextId' = nextId
              /\ received' = received
              /\ pc' = pc /\ result' = result
              /\ handler' = handler /\ handler[w] = "open"
      ]_vars

\* A subscriber has sent a text and, still open, has been sent a batch.
C16_Witness ==
    \E w \in Conns :
        /\ heard[w]
        /\ handler[w] = "open"
        /\ w \in subscriptions
        /\ received[w] # <<>>

---------------------------------------------------------------------------
\* The operation's request has just been taken up by its handler.
Begins(o) == ops[o].at = "idle" /\ ops'[o].at # "idle"

(* C18: a lookup, an update or a delete by an id that no row of the store  *)
(* has ends at once with the not-found response, which is neither a        *)
(* success nor any other failure, and leaves the store as it was; and no   *)
(* step of these operations sends anything to a subscriber.                *)
C18_UnknownIdNotFound ==
    [][\A o \in Ops :
          /\ (Begins(o) /\ \A r \in store : r.id # ops'[o].id) =>
                 /\ ops'[o].at = "done"
                 /\ ops'[o].response = NotFound
                 /\ ops'[o].response.code \notin {200, 422, 500}
                 /\ store' = store
          /\ ops'[o] # ops[o] => received' = received
      ]_vars

\* An update and a delete by an id that no row has have ended, the store
\* holds rows, and a subscriber has been sent a batch.
C18_Witness ==
    /\ \E o \in Ops : ops[o].kind = "update" /\ ops[o].response = NotFound
    /\ \E o \in Ops : ops[o].kind = "delete" /\ ops[o].response = NotFound
    /\ store # {}
    /\ \E w \in Conns : received[w] # <<>>

\* A lookup by an id that no row has has ended.
C18_WitnessRead ==
    /\ \E o \in Ops : ops[o].kind = "read" /\ ops[o].response = NotFound
    /\ store # {}

(* C19: from its commit to its end, whether the broadcast ends or raises,  *)
(* every row of a committed call is in the store as it was inserted, and a *)
(* lookup by its id returns it.                                            *)
C19_CommittedRowsStay ==
    \A c \in Calls :
        Committed(c) =>
            \A j \in 1..Len(inserted[c]) :
                /\ inserted[c][j] \in store
                /\ ReadRow(inserted[c][j].id) = Found(inserted[c][j])

\* A committed call with records has ended with an error of the broadcast.
C19_Witness ==
    \E c \in Calls :
        /\ pc[c] = "done"
        /\ Committed(c)
        /\ result[c].code = 500
        /\ result[c].error \in {"delivery", "runtime"}
        /\ Len(inserted[c]) >= 1

(* C20: of the delete requests for one id, at most one returns the deleted *)
(* record; the others report not found.                                    *)
C20_OneDeleteWins ==
    \A o, p \in Ops :
        (/\ o # p
         /\ ops[o].kind = "delete" /\ ops[p].kind = "delete"
         /\ ops[o].id = ops[p].id
         /\ ops[o].at = "done" /\ ops[p].at = "done")
        => ~(ops[o].response.code = 200 /\ ops[p].response.code = 200)

====
